---- MODULE Spec2Model ----
(***************************************************************************)
(* A model of the NeuroBlock backend: the dataset validators               *)
(* (validation.py, utils.py), the MLPipeline object (ml_pipeline.py) and   *)
(* the Flask request handlers that drive it (app.py).                      *)
(***************************************************************************)
EXTENDS Integers, Sequences, FiniteSets, TLC

\* Python's None.
None == "<None>"

(***************************************************************************)
(* Program constants.                                                      *)
(***************************************************************************)
MIN_ROWS == 10
MAX_MISSING_PCT == 90
MIN_COLS == 2

(***************************************************************************)
(* Bounds of the model.                                                    *)
(***************************************************************************)
MaxRows == 11
MaxCols == 3

MaxRequests == 3
NumShuffles == 2

VARIABLES
    vin,        \* the frame handed to validation.validate_dataset
    vout,       \* what it returned (a sequence of length <= 1)
    heap,       \* the MLPipeline objects created so far
    pipelines,  \* app.pipelines: session number -> index of its object in heap
    th,         \* per server thread: the request it handles and its locals
    nreq,       \* requests accepted so far
    trained     \* sessions for which a training request answered 200

vars == <<vin, vout, heap, pipelines, th, nreq, trained>>

appvars == <<heap, pipelines, th, nreq, trained>>

(***************************************************************************)
(* Data frames as the validators see them: the number of rows, the column  *)
(* names in order, and the number of missing cells of each column.         *)
(***************************************************************************)
ColumnNames == {"a", "b", "Unnamed: 0"}

\* 'Unnamed' in str(col)
ContainsUnnamed(col) == col \in {"Unnamed: 0", "Unnamed: 1"}

MissChoices(n) == {0, (9 * n) \div 10, ((9 * n) \div 10) + 1, n} \cap (0..n)

ShapesOf(n, k) ==
    { [nrows |-> n, names |-> nm, nmiss |-> ms] :
        nm \in [1..k -> ColumnNames], ms \in [1..k -> MissChoices(n)] }

\* The row counts on either side of each threshold of the validators.
RowChoices == {0, 1, MIN_ROWS - 1, MIN_ROWS, MaxRows}

ColIdx(s) == 1..Len(s.names)

\* df.empty: either axis has length 0.
df_empty(s) == s.nrows = 0 \/ Len(s.names) = 0

\* df.isna().all().all()
all_missing(s) == \A i \in ColIdx(s) : s.nmiss[i] = s.nrows

\* (df.isna().sum() / len(df) * 100).max() > 90.  The quotient is k/n*100 in
\* double precision; for every n below 10^15 it exceeds 90.0 exactly when
\* 100*k > 90*n.
too_many_missing(s) ==
    \E i \in ColIdx(s) : 100 * s.nmiss[i] > MAX_MISSING_PCT * s.nrows

\* df.columns.duplicated().any()
has_duplicates(s) ==
    \E i, j \in ColIdx(s) : i < j /\ s.names[i] = s.names[j]

has_unnamed(s) == \E i \in ColIdx(s) : ContainsUnnamed(s.names[i])

Failure(msg, sug) == [valid |-> FALSE, error |-> msg, suggestion |-> sug]

Accepted == [valid |-> TRUE, error |-> None, suggestion |-> None]

\* validation.py validate_dataset with the seventh check before the fifth.
validation_validate_dataset_reordered(s) ==
    IF df_empty(s)
    THEN Failure("Dataset is empty", "Please upload a file with data rows")
    ELSE IF s.nrows < MIN_ROWS
    THEN Failure("Dataset has only {len(df)} rows",
                 "ML models need at least 10 samples. Please upload a larger dataset")
    ELSE IF all_missing(s)
    THEN Failure("All columns contain only missing values",
                 "Please check your data file for valid entries")
    ELSE IF too_many_missing(s)
    THEN Failure("Column '{worst_col}' has {missing_pct:.1f}% missing values",
                 "Consider removing columns with too many missing values or use imputation")
    ELSE IF has_unnamed(s)
    THEN Failure("Found unnamed columns: {unnamed_cols}",
                 "Please add column headers to your CSV file")
    ELSE IF Len(s.names) < MIN_COLS
    THEN Failure("Dataset must have at least 2 columns",
                 "You need at least one input feature and one target variable")
    ELSE IF has_duplicates(s)
    THEN Failure("Duplicate column names found: {dup_cols}",
                 "Please rename duplicate columns in your CSV file")
    ELSE Accepted

\* validation.py validate_dataset: (is_valid, error_message, suggestion).
validation_validate_dataset(s) ==
    IF df_empty(s)
    THEN Failure("Dataset is empty", "Please upload a file with data rows")
    ELSE IF s.nrows < MIN_ROWS
    THEN Failure("Dataset has only {len(df)} rows",
                 "ML models need at least 10 samples. Please upload a larger dataset")
    ELSE IF all_missing(s)
    THEN Failure("All columns contain only missing values",
                 "Please check your data file for valid entries")
    ELSE IF too_many_missing(s)
    THEN Failure("Column '{worst_col}' has {missing_pct:.1f}% missing values",
                 "Consider removing columns with too many missing values or use imputation")
    ELSE IF Len(s.names) < MIN_COLS
    THEN Failure("Dataset must have at least 2 columns",
                 "You need at least one input feature and one target variable")
    ELSE IF has_duplicates(s)
    THEN Failure("Duplicate column names found: {dup_cols}",
                 "Please rename duplicate columns in your CSV file")
    ELSE IF has_unnamed(s)
    THEN Failure("Found unnamed columns: {unnamed_cols}",
                 "Please add column headers to your CSV file")
    ELSE Accepted

(***************************************************************************)
(* Uploaded data frames.  A column has a name, a dtype and one value per   *)
(* row; NA is a missing cell (NaN).  Numbers stand for themselves.  The    *)
(* strings of an object column are written as their rank in the sorted     *)
(* vocabulary <<"blue", "nan", "no", "red", "yes">>, so that the order of  *)
(* the ranks is the order of the strings.                                  *)
(***************************************************************************)
NA == -1
STR_NAN == 2

Col(name, dtype, vals) == [name |-> name, dtype |-> dtype, vals |-> vals]

Frame(cols) ==
    [nrows |-> IF cols = <<>> THEN 0 ELSE Len(cols[1].vals), cols |-> cols]

\* pd.api.types.is_numeric_dtype
is_numeric_dtype(dtype) == dtype \in {"int64", "float64"}

isna(v) == v = NA

CountNA(vals) == Cardinality({ i \in DOMAIN vals : isna(vals[i]) })

\* The frame as the validators see it.
ShapeOf(df) ==
    [nrows |-> df.nrows,
     names |-> [i \in DOMAIN df.cols |-> df.cols[i].name],
     nmiss |-> [i \in DOMAIN df.cols |-> CountNA(df.cols[i].vals)]]

Columns(df) == { df.cols[i].name : i \in DOMAIN df.cols }

\* df[name]: the first column of that name.
Column(df, name) ==
    df.cols[CHOOSE i \in DOMAIN df.cols :
                /\ df.cols[i].name = name
                /\ \A j \in DOMAIN df.cols : df.cols[j].name = name => i <= j]

Repeat(v, n) == [i \in 1..n |-> v]

\* Ten rows: a float feature with a gap, a text feature with gaps, a 0/1 label.
F_binary ==
    Frame(<< Col("a", "float64", <<3, 1, NA, 4, 1, 5, 9, 2, 6, 5>>),
             Col("c", "object",  <<1, 4, 4, NA, 1, 4, NA, 1, 4, 4>>),
             Col("y", "int64",   <<0, 1, 0, 1, 0, 1, 0, 1, 0, 1>>) >>)

\* Ten rows whose label has a single value.
F_constant ==
    Frame(<< Col("a", "float64", <<3, 1, 4, 1, 5, 9, 2, 6, 5, 3>>),
             Col("y", "int64",   Repeat(1, 10)) >>)

\* Ten rows, three classes, one of them with a single sample; an integer
\* label that takes the values 0, 1 and 2.
F_rare ==
    Frame(<< Col("a", "float64", <<3, 1, 4, 1, 5, 9, 2, 6, 5, 3>>),
             Col("c", "object",  <<1, 4, 4, 1, 1, 4, 1, 1, 4, 4>>),
             Col("y", "int64",   <<0, 2, 0, 2, 0, 2, 0, 2, 0, 1>>) >>)

\* Ten rows, a text label ("no"/"yes") and a feature with no value at all.
F_text ==
    Frame(<< Col("a", "float64", Repeat(NA, 10)),
             Col("c", "object",  <<1, 4, 4, NA, 1, 4, 4, 1, 4, 4>>),
             Col("y", "object",  <<3, 5, 3, 5, 3, 5, 5, 3, 5, 3>>) >>)

\* Ten rows with a real-valued label.
F_real ==
    Frame(<< Col("a", "float64", <<3, 1, 4, 1, 5, 9, 2, 6, 5, 3>>),
             Col("c", "object",  <<1, 4, 4, 1, 1, 4, 1, 1, 4, 4>>),
             Col("y", "float64", <<11, 12, 13, 14, 15, 16, 17, 18, 19, 20>>) >>)

\* Ten rows with a two-valued integer label that never takes the value 1.
F_twothree ==
    Frame(<< Col("a", "float64", <<3, 1, 4, 1, 5, 9, 2, 6, 5, 3>>),
             Col("y", "int64",   <<2, 3, 2, 3, 2, 3, 2, 3, 2, 3>>) >>)

\* Nine rows: one short of the minimum.
F_short ==
    Frame(<< Col("a", "float64", <<3, 1, 4, 1, 5, 9, 2, 6, 5>>),
             Col("y", "int64",   <<0, 1, 0, 1, 0, 1, 0, 1, 0>>) >>)

\* Ten rows and a single column.
F_narrow == Frame(<< Col("y", "int64", <<0, 1, 0, 1, 0, 1, 0, 1, 0, 1>>) >>)

\* Twenty-five rows, 0/1 label.
F_25 ==
    Frame(<< Col("a", "float64", [i \in 1..25 |-> i]),
             Col("y", "int64",   [i \in 1..25 |-> i % 2]) >>)

\* A hundred rows, 0/1 label.
F_100 ==
    Frame(<< Col("a", "float64", [i \in 1..100 |-> i]),
             Col("y", "int64",   [i \in 1..100 |-> i % 2]) >>)

\* Ten rows, a 0/1 label whose class 1 has a single sample, in the last row.
F_lone ==
    Frame(<< Col("a", "float64", <<0, 10, 20, 30, 40, 50, 60, 70, 85, 90>>),
             Col("y", "int64",   <<0, 0, 0, 0, 0, 0, 0, 0, 0, 1>>) >>)

\* Fifty rows with an integer label that is different in every row.
F_ids ==
    Frame(<< Col("a", "float64", [i \in 1..50 |-> i]),
             Col("y", "int64",   [i \in 1..50 |-> 100 + i]) >>)

Frames ==
    << F_binary, F_constant, F_rare, F_text, F_real, F_twothree, F_short,
       F_narrow, F_25, F_100, F_lone, F_ids >>

(***************************************************************************)
(* Helpers on finite sets and sequences of integers.                       *)
(***************************************************************************)
Min(S) == CHOOSE x \in S : \A y \in S : x <= y
Max(S) == CHOOSE x \in S : \A y \in S : x >= y

RECURSIVE SortedSeq(_)
SortedSeq(S) == IF S = {} THEN <<>> ELSE <<Min(S)>> \o SortedSeq(S \ {Min(S)})

RECURSIVE SumSeq(_)
SumSeq(q) == IF q = <<>> THEN 0 ELSE Head(q) + SumSeq(Tail(q))

Range(q) == { q[i] : i \in DOMAIN q }

Count(q, v) == Cardinality({ i \in DOMAIN q : q[i] = v })

\* The index of v in the sequence q (the first one).
IndexOf(q, v) == Min({ i \in DOMAIN q : q[i] = v })

SelectVals(q) == SelectSeq(q, LAMBDA v : ~isna(v))

RECURSIVE SortVals(_)
SortVals(q) ==
    IF q = <<>> THEN <<>>
    ELSE LET m == Min(Range(q))
             i == IndexOf(q, m)
         IN  <<m>> \o SortVals(SubSeq(q, 1, i - 1) \o SubSeq(q, i + 1, Len(q)))

(***************************************************************************)
(* Python dicts as functions, optional values as sequences of length <= 1. *)
(***************************************************************************)
EmptyDict == [k \in {} |-> 0]

DictSet(d, k, v) == [x \in (DOMAIN d) \cup {k} |-> IF x = k THEN v ELSE d[x]]

Nothing == <<>>

Some(x) == <<x>>

(***************************************************************************)
(* MLPipeline: the object and its preprocessing.                           *)
(***************************************************************************)
\* MLPipeline.__init__, followed by app.py's pipeline.original_df = df.
NewPipeline(df) ==
    [original_df    |-> df,
     scaler         |-> Nothing,
     label_encoders |-> EmptyDict,
     feature_names  |-> <<>>,
     target_name    |-> None,
     model          |-> Nothing,
     X_train        |-> Nothing,
     X_test         |-> Nothing,
     y_train        |-> Nothing,
     y_test         |-> Nothing]

\* The strategies sklearn's SimpleImputer accepts.
ImputerStrategies == {"mean", "median", "most_frequent", "constant"}

\* The most frequent value, the smallest one among ties.
Mode(q) ==
    LET best == Max({ Count(q, v) : v \in Range(q) })
    IN  Min({ v \in Range(q) : Count(q, v) = best })

\* The statistic SimpleImputer fits on the observed values q; means and
\* medians are rounded down to the integer grid the values live on.
ImputerStatistic(strategy, q) ==
    CASE strategy = "mean" -> SumSeq(q) \div Len(q)
      [] strategy = "median" ->
            LET srt == SortVals(q)
                n   == Len(srt)
            IN  IF n % 2 = 1 THEN srt[(n + 1) \div 2]
                ELSE (srt[n \div 2] + srt[(n \div 2) + 1]) \div 2
      [] strategy = "most_frequent" -> Mode(q)
      [] OTHER -> 0

\* SimpleImputer(strategy).fit_transform(X[[col]]) raises on an unknown
\* strategy; a column without any observed value is dropped by the imputer,
\* and assigning the empty result back to X[col] raises.
ImputeRaises(col, strategy) ==
    \/ strategy \notin ImputerStrategies
    \/ SelectVals(col.vals) = <<>>

\* lines 72-79: the strategy used for one column that has missing cells.
ColumnStrategy(col, strategy) ==
    IF is_numeric_dtype(col.dtype) THEN strategy ELSE "most_frequent"

\* As Impute, but only numeric columns are imputed.
ImputeNumericOnly(col, strategy) ==
    IF CountNA(col.vals) = 0 \/ ~is_numeric_dtype(col.dtype) THEN col
    ELSE LET stat == ImputerStatistic(strategy, SelectVals(col.vals))
         IN  [col EXCEPT !.vals = [i \in DOMAIN col.vals |->
                                     IF isna(col.vals[i]) THEN stat ELSE col.vals[i]],
                         !.dtype = "float64"]

\* lines 71-79 for one column.
Impute(col, strategy) ==
    IF CountNA(col.vals) = 0 THEN col
    ELSE LET stat == ImputerStatistic(ColumnStrategy(col, strategy),
                                      SelectVals(col.vals))
         IN  [col EXCEPT !.vals = [i \in DOMAIN col.vals |->
                                     IF isna(col.vals[i]) THEN stat ELSE col.vals[i]],
                         !.dtype = IF is_numeric_dtype(col.dtype)
                                   THEN "float64" ELSE col.dtype]

\* series.astype(str): a missing cell becomes the string "nan".
astype_str(vals) ==
    [i \in DOMAIN vals |-> IF isna(vals[i]) THEN STR_NAN ELSE vals[i]]

\* LabelEncoder().fit(values): the sorted distinct values.
LabelEncoderFit(vals) == [classes |-> SortedSeq(Range(vals))]

\* LabelEncoder.transform: the position of each value among the classes.
LabelEncoderTransform(le, vals) ==
    [i \in DOMAIN vals |-> IndexOf(le.classes, vals[i]) - 1]

\* As Encode, but the values keep their place in the whole vocabulary
\* instead of being numbered densely among the values present.
EncodeSparse(col) ==
    [col EXCEPT !.vals = astype_str(col.vals), !.dtype = "int64"]

\* lines 85-86 for one column.
Encode(col) ==
    LET strs == astype_str(col.vals)
    IN  [col EXCEPT !.vals = LabelEncoderTransform(LabelEncoderFit(strs), strs),
                    !.dtype = "int64"]

\* The preprocessing configuration with the defaults of config.get(...).
Config(hm, strategy, enc, std, norm) ==
    [handle_missing |-> hm, missing_strategy |-> strategy,
     encode_categories |-> enc, standardization |-> std, normalization |-> norm]

RECURSIVE EncodersAfter(_, _)
\* self.label_encoders after lines 83-87 over the columns cols.
EncodersAfter(encoders, cols) ==
    IF cols = <<>> THEN encoders
    ELSE LET col == Head(cols)
         IN  EncodersAfter(
                IF is_numeric_dtype(col.dtype) THEN encoders
                ELSE DictSet(encoders, col.name,
                             LabelEncoderFit(astype_str(col.vals))),
                Tail(cols))

\* As ScalerChoice, with normalization taking precedence.
ScalerChoiceNormalizationFirst(config) ==
    IF config.normalization THEN "minmax"
    ELSE IF config.standardization THEN "standard"
    ELSE "none"

PreResult(raised, self, X, y) ==
    [raised |-> raised, self |-> self, X |-> X, y |-> y]

\* Which scaler lines 96-111 apply: "standard", "minmax" or "none".
ScalerChoice(config) ==
    IF config.standardization THEN "standard"
    ELSE IF config.normalization THEN "minmax"
    ELSE "none"

\* MLPipeline.preprocess_data(df, input_features, target_variable, config):
\* what is raised (or ""), the object afterwards, and the returned (X, y).
preprocess_data(self, df, input_features, target_variable, config) ==
    IF \/ \E i \in DOMAIN input_features : input_features[i] \notin Columns(df)
       \/ target_variable \notin Columns(df)
    THEN PreResult("KeyError", self, Nothing, Nothing)
    ELSE
    LET X0     == [i \in DOMAIN input_features |-> Column(df, input_features[i])]
        y0     == Column(df, target_variable)
        self1  == [self EXCEPT !.feature_names = input_features,
                               !.target_name = target_variable]
        strat  == config.missing_strategy
        tofill == { i \in DOMAIN X0 : CountNA(X0[i].vals) > 0 }
    IN
    IF config.handle_missing
       /\ \E i \in tofill : ImputeRaises(X0[i], ColumnStrategy(X0[i], strat))
    THEN PreResult("ValueError: imputation", self1, Nothing, Nothing)
    ELSE
    LET X1     == IF config.handle_missing
                  THEN [i \in DOMAIN X0 |-> Impute(X0[i], strat)]
                  ELSE X0
        X2     == IF config.encode_categories
                  THEN [i \in DOMAIN X1 |->
                          IF is_numeric_dtype(X1[i].dtype) THEN X1[i]
                          ELSE Encode(X1[i])]
                  ELSE X1
        enc2   == IF config.encode_categories
                  THEN EncodersAfter(self1.label_encoders, X1)
                  ELSE self1.label_encoders
        ynum   == is_numeric_dtype(y0.dtype)
        y      == IF ynum
                  THEN [vals |-> y0.vals, floating |-> y0.dtype = "float64"]
                  ELSE [vals |-> Encode(y0).vals, floating |-> FALSE]
        enc3   == IF ynum THEN enc2
                  ELSE DictSet(enc2, target_variable,
                               LabelEncoderFit(astype_str(y0.vals)))
        self3  == [self1 EXCEPT !.label_encoders = enc3]
        steps  == (IF config.handle_missing /\ tofill # {}
                   THEN <<"impute">> ELSE <<>>)
                  \o (IF X2 # X1 THEN <<"encode">> ELSE <<>>)
                  \o (IF ynum THEN <<>> ELSE <<"encode_target">>)
        kind   == ScalerChoice(config)
        canfit == /\ X2 # <<>>
                  /\ \A i \in DOMAIN X2 : is_numeric_dtype(X2[i].dtype)
    IN
    IF kind = "none"
    THEN PreResult("", self3,
                   Some([cols |-> X2, scaled |-> "none", steps |-> steps]),
                   Some(y))
    ELSE IF ~canfit
    THEN PreResult("ValueError: scaler",
                   [self3 EXCEPT !.scaler =
                        Some([kind |-> kind, fitted |-> FALSE, n_features |-> 0])],
                   Nothing, Nothing)
    ELSE PreResult("",
                   [self3 EXCEPT !.scaler =
                        Some([kind |-> kind, fitted |-> TRUE,
                              n_features |-> Len(X2)])],
                   Some([cols |-> [i \in DOMAIN X2 |->
                                     [X2[i] EXCEPT !.dtype = "float64"]],
                         scaled |-> kind,
                         steps |-> Append(steps, kind)]),
                   Some(y))

(***************************************************************************)
(* MLPipeline.split_data and sklearn's train_test_split.                   *)
(***************************************************************************)
\* The pairs (n, split_ratio), n <= 100, for which the double-precision
\* product ((100 - split_ratio) / 100) * n lies just above the integer it
\* equals in exact arithmetic, so that its ceiling is one too large.
FloatCeilExcess ==
    { <<25, 44>>, <<25, 72>>, <<50, 44>>, <<50, 72>>, <<50, 86>>,
      <<75, 32>>, <<75, 44>>, <<75, 72>>,
      <<100, 44>>, <<100, 45>>, <<100, 72>>, <<100, 86>>, <<100, 93>> }

CeilDiv(a, b) == (a + b - 1) \div b

\* app.py line 172 and train_test_split: n_test = ceil(test_size * n) with
\* test_size = (100 - split_ratio) / 100, in double precision.
NTest(n, split_ratio) ==
    CeilDiv((100 - split_ratio) * n, 100)
        + (IF <<n, split_ratio>> \in FloatCeilExcess THEN 1 ELSE 0)

\* np.unique(y, return_counts=True)
unique_classes(y) == SortedSeq(Range(y.vals))

class_counts(y) ==
    LET u == unique_classes(y) IN [i \in DOMAIN u |-> Count(y.vals, u[i])]

\* As Stratify, with the test on the class counts dropped.
StratifyAnyCount(y) == Len(unique_classes(y)) > 1

\* line 128: whether stratify=y is passed to train_test_split.
Stratify(y) ==
    /\ Len(unique_classes(y)) > 1
    /\ Min(Range(class_counts(y))) >= 2

\* What train_test_split raises for these arguments, or "".
SplitError(y, split_ratio, stratified) ==
    LET n  == Len(y.vals)
        nc == Len(unique_classes(y))
    IN  IF ~(0 < split_ratio /\ split_ratio < 100)
        THEN "ValueError: test_size"
        ELSE IF n - NTest(n, split_ratio) <= 0
        THEN "ValueError: empty train set"
        ELSE IF stratified /\ Min(Range(class_counts(y))) < 2
        THEN "ValueError: least populated class"
        ELSE IF stratified /\ (n - NTest(n, split_ratio) < nc
                               \/ NTest(n, split_ratio) < nc)
        THEN "ValueError: fewer samples than classes"
        ELSE ""

\* The sequence q rotated by k places: the shuffles the model considers.
Rot(q, k) == [i \in DOMAIN q |-> q[((i + k - 1) % Len(q)) + 1]]

Part(train, test) == [train |-> train, test |-> test]

\* As ShufflePart, but the train rows are taken from the head of the
\* permutation, where the test rows are.
ShufflePartFromHead(n, n_test, k) ==
    LET perm == Rot([i \in 1..n |-> i], k)
    IN  Part({ perm[i] : i \in 1..(n - n_test) }, { perm[i] : i \in 1..n_test })

\* ShuffleSplit: the first n_test rows of the permutation are the test rows,
\* the rows after them the train rows.
ShufflePart(n, n_test, k) ==
    LET perm == Rot([i \in 1..n |-> i], k)
    IN  Part({ perm[i] : i \in (n_test + 1)..n }, { perm[i] : i \in 1..n_test })

\* _approximate_mode: the train rows each class gets, for the classes in
\* extra rounded up.  extra must hold the classes of largest remainder.
TrainAllocations(y, n_train) ==
    LET n   == Len(y.vals)
        cc  == class_counts(y)
        fl  == [c \in DOMAIN cc |-> (cc[c] * n_train) \div n]
        rem == [c \in DOMAIN cc |-> (cc[c] * n_train) % n]
        need == n_train - SumSeq(fl)
    IN  { [c \in DOMAIN cc |-> fl[c] + (IF c \in extra THEN 1 ELSE 0)] :
            extra \in { E \in SUBSET (DOMAIN cc) :
                          /\ Cardinality(E) = need
                          /\ \A a \in E, b \in (DOMAIN cc) \ E : rem[a] >= rem[b] } }

\* StratifiedShuffleSplit: within each class, permuted, the first rows are
\* train rows and the rest test rows.
StratifiedPart(y, alloc, k) ==
    LET u      == unique_classes(y)
        rowsOf(c) == Rot(SortedSeq({ i \in DOMAIN y.vals : y.vals[i] = u[c] }), k)
    IN  Part(UNION { { rowsOf(c)[j] : j \in 1..alloc[c] } : c \in DOMAIN u },
             UNION { { rowsOf(c)[j] : j \in (alloc[c] + 1)..Len(rowsOf(c)) } :
                        c \in DOMAIN u })

\* The partitions train_test_split may return, one per shuffle.
Partitions(y, split_ratio, stratified, shuffles) ==
    LET n      == Len(y.vals)
        n_test == NTest(n, split_ratio)
    IN  IF stratified
        THEN { StratifiedPart(y, alloc, k) :
                 alloc \in TrainAllocations(y, n - n_test), k \in shuffles }
        ELSE { ShufflePart(n, n_test, k) : k \in shuffles }

\* MLPipeline.split_data(X, y, test_size) with test_size from split_ratio:
\* what is raised (or "") and the object afterwards, for every shuffle.
split_data(self, X, y, split_ratio, shuffles) ==
    LET stratified == Stratify(y)
        err        == SplitError(y, split_ratio, stratified)
    IN  IF err # ""
        THEN { [raised |-> err, self |-> self, stratified |-> stratified] }
        ELSE { [raised |-> "",
                stratified |-> stratified,
                self |-> [self EXCEPT
                    !.X_train = Some([rows |-> p.train, X |-> X]),
                    !.X_test  = Some([rows |-> p.test, X |-> X]),
                    !.y_train = Some([vals |-> [i \in p.train |-> y.vals[i]],
                                      floating |-> y.floating]),
                    !.y_test  = Some([vals |-> [i \in p.test |-> y.vals[i]],
                                      floating |-> y.floating])]] :
                 p \in Partitions(y, split_ratio, stratified, shuffles) }

(***************************************************************************)
(* MLPipeline.train_model: the model factory, fitting, and the metrics.    *)
(***************************************************************************)
MAX_CLASSES == 50
KNN_NEIGHBORS == 5

\* line 153
is_classification(y_train) ==
    /\ Cardinality(Range(y_train.vals)) < MAX_CLASSES
    /\ ~y_train.floating

\* As Estimator, without the 'logistic' alias of line 156.
EstimatorNoAlias(model_type, classification) ==
    CASE model_type = "linear" ->
            IF classification THEN "LogisticRegression" ELSE "LinearRegression"
      [] model_type = "decision_tree" ->
            IF classification THEN "DecisionTreeClassifier" ELSE "DecisionTreeRegressor"
      [] model_type = "random_forest" ->
            IF classification THEN "RandomForestClassifier" ELSE "RandomForestRegressor"
      [] model_type = "svm" -> IF classification THEN "SVC" ELSE "SVR"
      [] model_type = "knn" ->
            IF classification THEN "KNeighborsClassifier" ELSE "KNeighborsRegressor"
      [] model_type = "neural_network" ->
            IF classification THEN "MLPClassifier" ELSE "MLPRegressor"
      [] OTHER -> ""

\* As Estimator, but an unknown model type falls back to a decision tree.
EstimatorWithDefault(model_type, classification) ==
    IF EstimatorNoAlias(model_type, classification) # ""
       \/ model_type = "logistic"
    THEN EstimatorNoAlias(IF model_type = "logistic" THEN "linear" ELSE model_type,
                          classification)
    ELSE EstimatorNoAlias("decision_tree", classification)

\* lines 156-230: the estimator class built for a model type, "" when the
\* else branch raises ValueError("Unknown model type").
Estimator(model_type, classification) ==
    CASE model_type = "logistic" \/ model_type = "linear" ->
            IF classification THEN "LogisticRegression" ELSE "LinearRegression"
      [] model_type = "decision_tree" ->
            IF classification THEN "DecisionTreeClassifier" ELSE "DecisionTreeRegressor"
      [] model_type = "random_forest" ->
            IF classification THEN "RandomForestClassifier" ELSE "RandomForestRegressor"
      [] model_type = "svm" -> IF classification THEN "SVC" ELSE "SVR"
      [] model_type = "knn" ->
            IF classification THEN "KNeighborsClassifier" ELSE "KNeighborsRegressor"
      [] model_type = "neural_network" ->
            IF classification THEN "MLPClassifier" ELSE "MLPRegressor"
      [] OTHER -> ""

\* A freshly constructed, unfitted estimator.
NewModel(estimator, classification) ==
    [estimator  |-> estimator,
     classifier |-> classification,
     fitted     |-> FALSE,
     features   |-> <<>>,
     classes    |-> {},
     n_fit      |-> 0,
     fit_rows   |-> {},
     fit_target |-> None]

TreeEstimators ==
    {"DecisionTreeClassifier", "DecisionTreeRegressor",
     "RandomForestClassifier", "RandomForestRegressor"}

FeatureNames(X) == [i \in DOMAIN X.cols |-> X.cols[i].name]

HasObjectColumn(X) == \E i \in DOMAIN X.cols : ~is_numeric_dtype(X.cols[i].dtype)

HasNaN(Xpart) ==
    \E i \in DOMAIN Xpart.X.cols, r \in Xpart.rows : isna(Xpart.X.cols[i].vals[r])

\* What estimator.fit(X_train, y_train) may raise ("" for a fit that
\* succeeds).  sklearn rejects strings and empty feature sets, and invalid
\* hyperparameters; NaN is rejected by every estimator but the trees, which
\* take it or not with the sklearn version; logistic regression and SVC
\* need two classes.
FitOutcomes(model, X_train, y_train, hyperparameters) ==
    IF hyperparameters = "invalid" THEN {"InvalidParameterError"}
    ELSE IF X_train.X.cols = <<>> \/ HasObjectColumn(X_train.X)
    THEN {"ValueError: could not convert"}
    ELSE IF HasNaN(X_train)
    THEN IF model.estimator \in TreeEstimators
         THEN {"", "ValueError: Input X contains NaN"}
         ELSE {"ValueError: Input X contains NaN"}
    ELSE IF /\ model.estimator \in {"LogisticRegression", "SVC"}
            /\ Cardinality(Range(y_train.vals)) < 2
    THEN {"ValueError: needs samples of at least 2 classes"}
    ELSE {""}

\* line 233, self.model.fit(self.X_train, self.y_train), for one outcome.
fit(self, outcome) ==
    IF outcome # "" THEN self
    ELSE [self EXCEPT !.model =
            Some([self.model[1] EXCEPT
                    !.fitted = TRUE,
                    !.features = FeatureNames(self.X_train[1].X),
                    !.classes = Range(self.y_train[1].vals),
                    !.n_fit = Cardinality(self.X_train[1].rows),
                    !.fit_rows = self.X_train[1].rows,
                    !.fit_target = self.target_name])]

\* What model.predict(X) raises for a matrix with these columns, or "".
PredictError(model, names, numeric, nan) ==
    IF ~model.fitted THEN "NotFittedError"
    ELSE IF names # model.features THEN "ValueError: feature names"
    ELSE IF ~numeric THEN "ValueError: could not convert"
    ELSE IF nan /\ model.estimator \notin TreeEstimators
    THEN "ValueError: Input X contains NaN"
    ELSE IF /\ model.estimator \in {"KNeighborsClassifier", "KNeighborsRegressor"}
            /\ model.n_fit < KNN_NEIGHBORS
    THEN "ValueError: n_neighbors"
    ELSE ""

\* A fitted classifier answers with classes it has seen.  The model takes
\* the constant predictors and the one that repeats the true label when it
\* has seen it; a regressor is taken to repeat the true value.
ORACLE == -2

Predictors(model) ==
    IF model.classifier THEN model.classes \cup {ORACLE} ELSE {ORACLE}

Predicted(model, truth, p) ==
    [i \in DOMAIN truth |->
        IF p # ORACLE THEN p
        ELSE IF model.classifier /\ truth[i] \notin model.classes
        THEN Min(model.classes)
        ELSE truth[i]]

Correct(truth, pred) == Cardinality({ i \in DOMAIN truth : truth[i] = pred[i] })

\* sklearn's precision_score(..., average='binary') raises unless the labels
\* present are binary and, when two are present, pos_label=1 is one of them.
BinaryAverageRaises(truth, pred) ==
    LET present == Range(truth) \cup Range(pred)
    IN  Cardinality(present) > 2 \/ (Cardinality(present) = 2 /\ 1 \notin present)

\* confusion_matrix(y_true, y_pred): rows and columns are the sorted labels
\* present in either argument.
confusion_matrix(truth, pred) ==
    LET labels == SortedSeq(Range(truth) \cup Range(pred))
    IN  [a \in DOMAIN labels |-> [b \in DOMAIN labels |->
            Cardinality({ i \in DOMAIN truth :
                            truth[i] = labels[a] /\ pred[i] = labels[b] })]]

\* MLPipeline._calculate_metrics: what is raised (or "") and the results.
calculate_metrics(self, y_train_pred, y_test_pred, classification) ==
    LET y_test  == self.y_test[1]
        y_train == self.y_train[1]
        model   == self.model[1]
        n_classes == Cardinality(Range(y_test.vals))
        average == IF n_classes = 2 THEN "binary" ELSE "weighted"
        common  == [n_train_samples |-> Cardinality(DOMAIN y_train.vals),
                    n_test_samples  |-> Cardinality(DOMAIN y_test.vals),
                    n_features      |-> Len(self.feature_names),
                    feature_names   |-> self.feature_names,
                    target_name     |-> self.target_name]
    IN  IF classification
        THEN IF y_test.floating \/ ~model.classifier
             THEN [raised |-> "ValueError: continuous targets", results |-> Nothing]
             ELSE IF average = "binary" /\ BinaryAverageRaises(y_test.vals, y_test_pred)
             THEN [raised |-> "ValueError: average='binary'", results |-> Nothing]
             ELSE [raised |-> "",
                   results |-> Some(
                     [problem |-> "classification",
                      average |-> average,
                      test_accuracy |-> <<Correct(y_test.vals, y_test_pred),
                                          Cardinality(DOMAIN y_test.vals)>>,
                      train_accuracy |-> <<Correct(y_train.vals, y_train_pred),
                                           Cardinality(DOMAIN y_train.vals)>>,
                      confusion_matrix |-> confusion_matrix(y_test.vals, y_test_pred),
                      bookkeeping |-> common])]
        ELSE [raised |-> "",
              results |-> Some(
                [problem |-> "regression",
                 average |-> "none",
                 test_accuracy |-> <<0, 0>>,
                 train_accuracy |-> <<0, 0>>,
                 confusion_matrix |-> <<<<0, 0>>, <<0, 0>>>>,
                 bookkeeping |-> common])]

(***************************************************************************)
(* utils.py: the validators app.py imports.                                *)
(***************************************************************************)
UtilsResult(valid, error) == [valid |-> valid, error |-> error]

\* utils.validate_dataset: (is_valid, error_message).
utils_validate_dataset(s) ==
    IF df_empty(s) THEN UtilsResult(FALSE, "Dataset is empty")
    ELSE IF s.nrows < MIN_ROWS
    THEN UtilsResult(FALSE, "Dataset must have at least 10 rows")
    ELSE IF Len(s.names) < MIN_COLS
    THEN UtilsResult(FALSE, "Dataset must have at least 2 columns (features + target)")
    ELSE UtilsResult(TRUE, "")

\* As validate_feature_target_selection, without the overlap check.
validate_feature_target_selection_no_overlap(df, input_features, target_variable) ==
    IF target_variable \notin Columns(df)
    THEN UtilsResult(FALSE, "Target variable '{target_variable}' not found in dataset")
    ELSE IF \E i \in DOMAIN input_features : input_features[i] \notin Columns(df)
    THEN UtilsResult(FALSE, "Feature '{feature}' not found in dataset")
    ELSE IF Len(input_features) < 1
    THEN UtilsResult(FALSE, "At least one input feature must be selected")
    ELSE UtilsResult(TRUE, "")

\* utils.validate_feature_target_selection: (is_valid, error_message).
validate_feature_target_selection(df, input_features, target_variable) ==
    IF target_variable \notin Columns(df)
    THEN UtilsResult(FALSE, "Target variable '{target_variable}' not found in dataset")
    ELSE IF \E i \in DOMAIN input_features : input_features[i] \notin Columns(df)
    THEN UtilsResult(FALSE, "Feature '{feature}' not found in dataset")
    ELSE IF \E i \in DOMAIN input_features : input_features[i] = target_variable
    THEN UtilsResult(FALSE, "Target variable cannot be in input features")
    ELSE IF Len(input_features) < 1
    THEN UtilsResult(FALSE, "At least one input feature must be selected")
    ELSE UtilsResult(TRUE, "")

(***************************************************************************)
(* app.py: requests, responses and the handlers' local state.              *)
(***************************************************************************)
DefaultConfig == Config(FALSE, "mean", FALSE, FALSE, FALSE)

NoData == [names |-> <<>>, numeric |-> TRUE, nan |-> FALSE]

NoReq ==
    [kind |-> "none", file |-> 0, filename |-> "", session_id |-> -1,
     input_features |-> <<>>, target_variable |-> "",
     preprocessing |-> DefaultConfig, split_ratio |-> 70, model_type |-> "",
     hyperparameters |-> "default", data |-> NoData]

UploadReq(file, filename) ==
    [NoReq EXCEPT !.kind = "upload", !.file = file, !.filename = filename]

TrainReq(sid, features, target, config, ratio, model_type, hyper) ==
    [NoReq EXCEPT !.kind = "train", !.session_id = sid,
                  !.input_features = features, !.target_variable = target,
                  !.preprocessing = config, !.split_ratio = ratio,
                  !.model_type = model_type, !.hyperparameters = hyper]

PredictReq(sid, data) ==
    [NoReq EXCEPT !.kind = "predict", !.session_id = sid, !.data = data]

\* A JSON response: the HTTP status and the keys of the body the model keeps.
Response(status, error, session_id, results, predictions) ==
    [status |-> status, error |-> error, suggestion |-> None,
     session_id |-> session_id, results |-> results, predictions |-> predictions]

ErrorResponse(status, error) == Response(status, error, -1, Nothing, Nothing)

IdleThread ==
    [pc |-> "idle", req |-> NoReq, pipeline |-> 0, df |-> 0, session_id |-> -1,
     X |-> Nothing, y |-> Nothing, classification |-> FALSE,
     trace |-> <<>>, failed |-> "", stratified |-> FALSE, resp |-> Nothing]

\* The thread answers and is free again; its last request, trace and
\* response stay readable until it takes the next request.
Answer(t, trace, failed, resp) ==
    [th EXCEPT ![t].pc = "idle", ![t].trace = trace, ![t].failed = failed,
               ![t].resp = Some(resp), ![t].X = Nothing, ![t].y = Nothing]

\* As handle_exception, but the failure is swallowed and an empty success
\* is answered.
handle_exception_swallowed(prefix, e) == Response(200, None, -1, Nothing, Nothing)

\* The handlers' except clauses: jsonify({'error': f'{prefix}: {e}'}), 500.
handle_exception(prefix, e) == ErrorResponse(500, e)

(***************************************************************************)
(* POST /api/upload.                                                       *)
(***************************************************************************)
Accept(t, req) ==
    /\ th[t].pc = "idle"
    /\ nreq < MaxRequests
    /\ nreq' = nreq + 1

\* lines 54-84: the file is read and validated and the session id is chosen.
UploadBegin(t, req) ==
    /\ Accept(t, req)
    /\ req.kind = "upload"
    /\ LET begun == [IdleThread EXCEPT !.req = req]
           fail(status, e) ==
               [th EXCEPT ![t] = [begun EXCEPT !.failed = "validate",
                                               !.resp = Some(ErrorResponse(status, e))]]
       IN  IF req.file = 0 THEN th' = fail(400, "No file provided")
           ELSE IF req.filename \notin {"data.csv", "data.xlsx"}
           THEN th' = fail(400, "Unsupported file format. Use CSV or Excel")
           ELSE LET v == utils_validate_dataset(ShapeOf(Frames[req.file]))
                IN  IF ~v.valid THEN th' = fail(400, v.error)
                    ELSE th' = [th EXCEPT ![t] =
                                  [begun EXCEPT !.pc = "u_store",
                                                !.df = req.file,
                                                !.session_id =
                                                    Cardinality(DOMAIN pipelines)]]
    /\ UNCHANGED <<heap, pipelines, trained, vin, vout>>

\* lines 87-100: the pipeline is created and stored under the session id.
UploadStore(t) ==
    /\ th[t].pc = "u_store"
    /\ heap' = Append(heap, NewPipeline(th[t].df))
    /\ pipelines' = DictSet(pipelines, th[t].session_id, Len(heap) + 1)
    /\ th' = Answer(t, <<>>, "",
                    Response(200, None, th[t].session_id, Nothing, Nothing))
    /\ UNCHANGED <<nreq, trained, vin, vout>>

(***************************************************************************)
(* POST /api/train.                                                        *)
(***************************************************************************)
\* lines 134-158: the session is looked up and the selection validated.
TrainBegin(t, req) ==
    /\ Accept(t, req)
    /\ req.kind = "train"
    /\ LET begun == [IdleThread EXCEPT !.req = req]
           fail(e) ==
               [th EXCEPT ![t] = [begun EXCEPT !.failed = "validate",
                                               !.trace = <<"validate">>,
                                               !.resp = Some(ErrorResponse(400, e))]]
       IN  IF req.session_id \notin DOMAIN pipelines
           THEN th' = [th EXCEPT ![t] =
                         [begun EXCEPT !.failed = "session",
                                       !.resp = Some(ErrorResponse(400, "Invalid session ID"))]]
           ELSE LET p  == pipelines[req.session_id]
                    df == heap[p].original_df
                    v  == validate_feature_target_selection(
                              Frames[df], req.input_features, req.target_variable)
                IN  IF ~v.valid THEN th' = fail(v.error)
                    ELSE th' = [th EXCEPT ![t] =
                                  [begun EXCEPT !.pc = "t_preprocess",
                                                !.pipeline = p, !.df = df,
                                                !.trace = <<"validate">>]]
    /\ UNCHANGED <<heap, pipelines, trained, vin, vout>>

\* lines 161-169: pipeline.preprocess_data(df, input_features, target, config).
TrainPreprocess(t) ==
    /\ th[t].pc = "t_preprocess"
    /\ LET me    == th[t]
           res   == preprocess_data(heap[me.pipeline], Frames[me.df],
                                    me.req.input_features, me.req.target_variable,
                                    me.req.preprocessing)
           trace == Append(me.trace, "preprocess")
       IN  /\ heap' = [heap EXCEPT ![me.pipeline] = res.self]
           /\ IF res.raised # ""
              THEN th' = Answer(t, trace, "preprocess",
                                handle_exception("Training failed", res.raised))
              ELSE th' = [th EXCEPT ![t].pc = "t_split", ![t].trace = trace,
                                    ![t].X = res.X, ![t].y = res.y]
    /\ UNCHANGED <<pipelines, nreq, trained, vin, vout>>

\* lines 171-173: pipeline.split_data(X, y, test_size).
TrainSplit(t) ==
    /\ th[t].pc = "t_split"
    /\ LET me    == th[t]
           trace == Append(me.trace, "split")
       IN  \E res \in split_data(heap[me.pipeline], me.X[1], me.y[1],
                                 me.req.split_ratio, 0..(NumShuffles - 1)) :
              /\ heap' = [heap EXCEPT ![me.pipeline] = res.self]
              /\ IF res.raised # ""
                 THEN th' = [Answer(t, trace, "split",
                                    handle_exception("Training failed", res.raised))
                               EXCEPT ![t].stratified = res.stratified]
                 ELSE th' = [th EXCEPT ![t].pc = "t_train", ![t].trace = trace,
                                       ![t].stratified = res.stratified]
    /\ UNCHANGED <<pipelines, nreq, trained, vin, vout>>

\* ml_pipeline.py lines 149-230: the problem type is derived and the
\* estimator constructed and stored in self.model.
TrainConstruct(t) ==
    /\ th[t].pc = "t_train"
    /\ LET me    == th[t]
           self  == heap[me.pipeline]
           cls   == is_classification(self.y_train[1])
           est   == Estimator(me.req.model_type, cls)
           trace == Append(me.trace, "train")
       IN  IF est = ""
           THEN /\ th' = Answer(t, trace, "train",
                                handle_exception("Training failed",
                                                 "Unknown model type"))
                /\ heap' = heap
           ELSE /\ heap' = [heap EXCEPT ![me.pipeline].model =
                                            Some(NewModel(est, cls))]
                /\ th' = [th EXCEPT ![t].pc = "t_fit", ![t].trace = trace,
                                    ![t].classification = cls]
    /\ UNCHANGED <<pipelines, nreq, trained, vin, vout>>

\* ml_pipeline.py line 233: self.model.fit(self.X_train, self.y_train).
TrainFit(t) ==
    /\ th[t].pc = "t_fit"
    /\ LET me    == th[t]
           self  == heap[me.pipeline]
           trace == Append(me.trace, "fit")
       IN  \E outcome \in FitOutcomes(self.model[1], self.X_train[1],
                                      self.y_train[1], me.req.hyperparameters) :
              /\ heap' = [heap EXCEPT ![me.pipeline] = fit(self, outcome)]
              /\ IF outcome # ""
                 THEN th' = Answer(t, trace, "fit",
                                   handle_exception("Training failed", outcome))
                 ELSE th' = [th EXCEPT ![t].pc = "t_metrics", ![t].trace = trace]
    /\ UNCHANGED <<pipelines, nreq, trained, vin, vout>>

\* ml_pipeline.py lines 235-252 and app.py line 178: the predictions on both
\* partitions, the metrics, and the response.
TrainFinish(t) ==
    /\ th[t].pc = "t_metrics"
    /\ LET me      == th[t]
           self    == heap[me.pipeline]
           model   == self.model[1]
           X_train == self.X_train[1]
           X_test  == self.X_test[1]
           trace   == Append(me.trace, "metrics")
           perr(Xp) == PredictError(model, FeatureNames(Xp.X),
                                    ~HasObjectColumn(Xp.X), HasNaN(Xp))
           err     == IF perr(X_train) # "" THEN perr(X_train) ELSE perr(X_test)
       IN  IF err # ""
           THEN /\ th' = Answer(t, trace, "metrics",
                                handle_exception("Training failed", err))
                /\ trained' = trained
           ELSE \E p \in Predictors(model) :
                   LET y_train_pred == Predicted(model, self.y_train[1].vals, p)
                       y_test_pred  == Predicted(model, self.y_test[1].vals, p)
                       m == calculate_metrics(self, y_train_pred, y_test_pred,
                                              me.classification)
                   IN  IF m.raised # ""
                       THEN /\ th' = Answer(t, trace, "metrics",
                                            handle_exception("Training failed",
                                                             m.raised))
                            /\ trained' = trained
                       ELSE /\ th' = Answer(t, trace, "",
                                        Response(200, None, -1, m.results,
                                            Some([actual |-> self.y_test[1].vals,
                                                  predicted |-> y_test_pred])))
                            /\ trained' = trained \cup {me.req.session_id}
    /\ UNCHANGED <<heap, pipelines, nreq, vin, vout>>

(***************************************************************************)
(* POST /api/predict.                                                      *)
(***************************************************************************)
\* lines 198-208: the session is looked up and the model tested for None.
PredictBegin(t, req) ==
    /\ Accept(t, req)
    /\ req.kind = "predict"
    /\ LET begun == [IdleThread EXCEPT !.req = req]
           fail(e) ==
               [th EXCEPT ![t] = [begun EXCEPT !.failed = "session",
                                               !.resp = Some(ErrorResponse(400, e))]]
       IN  IF req.session_id \notin DOMAIN pipelines
           THEN th' = fail("Invalid session ID")
           ELSE IF heap[pipelines[req.session_id]].model = Nothing
           THEN th' = fail("No trained model found. Train a model first.")
           ELSE th' = [th EXCEPT ![t] =
                         [begun EXCEPT !.pc = "p_predict",
                                       !.pipeline = pipelines[req.session_id]]]
    /\ UNCHANGED <<heap, pipelines, trained, vin, vout>>

\* lines 210-218: pipeline.model.predict(input_data).
PredictCall(t) ==
    /\ th[t].pc = "p_predict"
    /\ LET me    == th[t]
           model == heap[me.pipeline].model[1]
           data  == me.req.data
           err   == PredictError(model, data.names, data.numeric, data.nan)
       IN  IF err # ""
           THEN th' = Answer(t, <<"predict">>, "predict",
                             handle_exception("Prediction failed", err))
           ELSE th' = Answer(t, <<"predict">>, "",
                             Response(200, None, -1, Nothing,
                                      Some([actual |-> <<>>,
                                            predicted |-> <<Min(model.classes
                                                                \cup {0})>>])))
    /\ UNCHANGED <<heap, pipelines, nreq, trained, vin, vout>>

(***************************************************************************)
(* The server: two threads serve upload, train and predict requests.       *)
(***************************************************************************)
NumThreads == 2

Threads == 1..NumThreads

BOGUS_SESSION == MaxRequests + 1

NoShape == [nrows |-> 0, names |-> <<>>, nmiss |-> <<>>]

InitApp ==
    /\ heap = <<>>
    /\ pipelines = EmptyDict
    /\ th = [t \in Threads |-> IdleThread]
    /\ nreq = 0
    /\ trained = {}

Sessions == (DOMAIN pipelines) \cup {BOGUS_SESSION}

\* The requests the server is sent.
UploadRequests ==
    { UploadReq(f, "data.csv") : f \in {1, 4, 6, 7} }
        \cup { UploadReq(1, "data.txt"), UploadReq(0, "data.csv") }

FullConfig == Config(TRUE, "mean", TRUE, TRUE, FALSE)

TrainRequests ==
    { TrainReq(sid, sel[1], sel[2], cfg, 70, mt, "default") :
        sid \in Sessions,
        sel \in { <<<<"a">>, "y">>, <<<<"a", "y">>, "y">> },
        cfg \in { DefaultConfig, FullConfig },
        mt  \in { "decision_tree", "gradient_boosting" } }

PredictRequests ==
    { PredictReq(sid, [names |-> <<"a">>, numeric |-> TRUE, nan |-> FALSE]) :
        sid \in Sessions }

Init ==
    /\ InitApp
    /\ vin = NoShape
    /\ vout = <<>>

Next ==
    \/ \E t \in Threads, req \in UploadRequests : UploadBegin(t, req)
    \/ \E t \in Threads : UploadStore(t)
    \/ \E t \in Threads, req \in TrainRequests : TrainBegin(t, req)
    \/ \E t \in Threads : TrainPreprocess(t)
    \/ \E t \in Threads : TrainSplit(t)
    \/ \E t \in Threads : TrainConstruct(t)
    \/ \E t \in Threads : TrainFit(t)
    \/ \E t \in Threads : TrainFinish(t)
    \/ \E t \in Threads, req \in PredictRequests : PredictBegin(t, req)
    \/ \E t \in Threads : PredictCall(t)

Spec == Init /\ [][Next]_vars

(***************************************************************************)
(* One training request on a freshly uploaded session, served alone, over  *)
(* every frame the upload handler accepts and a wide range of requests.    *)
(***************************************************************************)
AcceptedFrames ==
    { f \in DOMAIN Frames : utils_validate_dataset(ShapeOf(Frames[f])).valid }

FeatureChoices == { <<>>, <<"a">>, <<"a", "c">>, <<"c", "y">>, <<"a", "zz">> }

TargetChoices == { "y", "zz" }

ConfigChoices ==
    { Config(TRUE, st, enc, std, norm) :
        st \in {"mean", "most_frequent", "mode"},
        enc \in BOOLEAN, std \in BOOLEAN, norm \in BOOLEAN }
    \cup
    { Config(FALSE, "mean", enc, std, norm) :
        enc \in BOOLEAN, std \in BOOLEAN, norm \in BOOLEAN }

RatioChoices == { 0, 5, 44, 70, 100 }

ModelTypeChoices == { "logistic", "linear", "decision_tree", "svm", "knn", "xgboost" }

WideTrainRequests ==
    { TrainReq(0, f, tg, cfg, r, mt, "default") :
        f \in FeatureChoices, tg \in TargetChoices,
        cfg \in ConfigChoices, r \in RatioChoices, mt \in ModelTypeChoices }
    \cup
    { TrainReq(BOGUS_SESSION, f, "y", DefaultConfig, 70, mt, "default") :
        f \in FeatureChoices, mt \in ModelTypeChoices }
    \cup
    { TrainReq(0, <<"a">>, "y", FullConfig, 70, mt, "invalid") :
        mt \in ModelTypeChoices }

\* The frames of fifty rows and more are served a short list of requests.
NarrowTrainRequests ==
    { TrainReq(0, <<"a">>, "y", cfg, r, mt, "default") :
        cfg \in {DefaultConfig, FullConfig}, r \in {44, 70},
        mt \in {"linear", "decision_tree", "xgboost"} }

RequestsFor(f) ==
    IF Frames[f].nrows >= 50 THEN NarrowTrainRequests
                                      ELSE WideTrainRequests

\* The state after one successful upload of an accepted frame.
InitTrain ==
    /\ \E f \in AcceptedFrames : heap = <<NewPipeline(f)>>
    /\ pipelines = DictSet(EmptyDict, 0, 1)
    /\ th = [t \in Threads |-> IdleThread]
    /\ nreq = 0
    /\ trained = {}
    /\ vin = NoShape
    /\ vout = <<>>

NextTrain ==
    \/ /\ nreq = 0
       /\ \E req \in RequestsFor(heap[1].original_df) : TrainBegin(1, req)
    \/ TrainPreprocess(1)
    \/ TrainSplit(1)
    \/ TrainConstruct(1)
    \/ TrainFit(1)
    \/ TrainFinish(1)

SpecTrain == InitTrain /\ [][NextTrain]_vars

(***************************************************************************)
(* The validator applied to one frame.                                     *)
(***************************************************************************)
InitValidate ==
    /\ \E n \in RowChoices, k \in 0..MaxCols : vin \in ShapesOf(n, k)
    /\ vout = <<>>
    /\ InitApp

\* One call of validate_dataset(df); vout holds the returned tuple.
Validate ==
    /\ vout = <<>>
    /\ vout' = <<validation_validate_dataset(vin)>>
    /\ UNCHANGED <<vin, appvars>>

NextValidate == Validate

SpecValidate == InitValidate /\ [][NextValidate]_vars

(***************************************************************************)
(* C1.  validate_dataset applies its seven checks in the fixed order (not  *)
(* empty; at least 10 rows; not all values missing; no column more than    *)
(* 90% missing; at least 2 columns; no duplicate names; no unnamed header) *)
(* and returns the failure of the first check that fails, with a non-empty *)
(* message and a non-empty suggestion.  Hence a frame with fewer than 10   *)
(* rows, fewer than 2 columns, a column more than 90% missing, duplicate   *)
(* names or an unnamed column is rejected, and a frame that passes all     *)
(* seven checks (a clean 10 x 2 frame among them) is accepted with no      *)
(* message and no suggestion.                                              *)
(***************************************************************************)
C1_Checks(s) ==
    <<  s.nrows = 0 \/ s.names = <<>>,
        s.nrows < 10,
        \A i \in DOMAIN s.nmiss : s.nmiss[i] = s.nrows,
        \E i \in DOMAIN s.nmiss : 10 * s.nmiss[i] > 9 * s.nrows,
        Len(s.names) < 2,
        Cardinality({ s.names[i] : i \in DOMAIN s.names }) < Len(s.names),
        \E i \in DOMAIN s.names : s.names[i] = "Unnamed: 0"  >>

C1_Messages ==
    <<  "Dataset is empty",
        "Dataset has only {len(df)} rows",
        "All columns contain only missing values",
        "Column '{worst_col}' has {missing_pct:.1f}% missing values",
        "Dataset must have at least 2 columns",
        "Duplicate column names found: {dup_cols}",
        "Found unnamed columns: {unnamed_cols}"  >>

C1_FirstFailure(s) ==
    LET failing == { k \in 1..7 : C1_Checks(s)[k] }
    IN  IF failing = {} THEN 0
        ELSE CHOOSE k \in failing : \A j \in failing : k <= j

C1_ValidateDatasetOrder ==
    vout # <<>> =>
        LET r == vout[1]
            k == C1_FirstFailure(vin)
        IN  /\ r.valid = (k = 0)
            /\ k = 0 => r.error = None /\ r.suggestion = None
            /\ k # 0 => /\ r.error = C1_Messages[k]
                        /\ r.error \notin {None, ""}
                        /\ r.suggestion \notin {None, ""}
            /\ (\/ vin.nrows < 10
                \/ Len(vin.names) < 2
                \/ C1_Checks(vin)[4]
                \/ C1_Checks(vin)[6]
                \/ C1_Checks(vin)[7]) => ~r.valid

\* A one-column frame with an unnamed header and enough rows: the fifth check
\* (two columns) fails before the seventh (unnamed header) is reached.
C1_Witness ==
    /\ vout # <<>>
    /\ vin.nrows = 10
    /\ vin.names = <<"Unnamed: 0">>
    /\ vin.nmiss = <<0>>
    /\ vout[1].error = "Dataset must have at least 2 columns"

\* A clean frame of exactly 10 rows and 2 columns is accepted.
C1_WitnessAccepted ==
    /\ vout # <<>>
    /\ vin = [nrows |-> 10, names |-> <<"a", "b">>, nmiss |-> <<0, 0>>]
    /\ vout[1] = Accepted

(***************************************************************************)
(* What the claims below read off a thread: its request, once answered.    *)
(***************************************************************************)
Answered(t) == th[t].resp # Nothing

IsTrain(t) == th[t].req.kind = "train"

\* The frame a train request of thread t addresses (the session is known).
KnownSession(t) == th[t].req.session_id \in DOMAIN pipelines

RequestFrame(t) == Frames[heap[pipelines[th[t].req.session_id]].original_df]

Stages(t) == Range(th[t].trace)

\* Thread t has preprocessed on its pipeline and not yet finished training.
MidTraining(t) == th[t].pc \in {"t_split", "t_train", "t_fit", "t_metrics"}

\* series.nunique(): the distinct values other than NaN.
nunique(col) == Cardinality(Range(col.vals) \ {NA})

(***************************************************************************)
(* C2.  A training request whose target column has a single distinct value *)
(* fails feature/target validation with a non-empty suggestion, before any *)
(* preprocessing, splitting or fitting is attempted for it.                *)
(***************************************************************************)
C2_SingleValuedTarget(t) ==
    /\ IsTrain(t)
    /\ KnownSession(t)
    /\ th[t].req.target_variable \in Columns(RequestFrame(t))
    /\ nunique(Column(RequestFrame(t), th[t].req.target_variable)) = 1

C2_SingleValuedTargetRejected ==
    \A t \in Threads :
        C2_SingleValuedTarget(t) =>
            /\ Stages(t) \subseteq {"validate"}
            /\ th[t].pc = "idle"
            /\ Answered(t) =>
                 /\ th[t].resp[1].status # 200
                 /\ th[t].failed = "validate"
                 /\ th[t].resp[1].suggestion \notin {None, ""}

(***************************************************************************)
(* C3.  A training request that names a feature or target column absent    *)
(* from the dataset, lists the target among the features, or lists no      *)
(* feature, is answered with an error and produces no feature matrix, no   *)
(* split and no model.                                                     *)
(***************************************************************************)
C3_BadSelection(t) ==
    LET f   == th[t].req.input_features
        tg  == th[t].req.target_variable
        has == Columns(RequestFrame(t))
    IN  /\ IsTrain(t)
        /\ KnownSession(t)
        /\ \/ \E i \in DOMAIN f : f[i] \notin has
           \/ tg \notin has
           \/ \E i \in DOMAIN f : f[i] = tg
           \/ f = <<>>

C3_BadSelectionFails ==
    \A t \in Threads :
        C3_BadSelection(t) =>
            LET self == heap[pipelines[th[t].req.session_id]]
            IN  /\ th[t].pc = "idle"
                /\ Answered(t)
                /\ th[t].resp[1].status # 200
                /\ th[t].resp[1].error \notin {None, ""}
                /\ th[t].resp[1].results = Nothing
                /\ th[t].X = Nothing /\ th[t].y = Nothing
                /\ Stages(t) \subseteq {"validate"}
                /\ self.X_train = Nothing /\ self.X_test = Nothing
                /\ self.y_train = Nothing /\ self.y_test = Nothing
                /\ self.model = Nothing

\* The target listed among the features of an answered request.
C3_Witness ==
    /\ C3_BadSelection(1)
    /\ th[1].req.input_features = <<"c", "y">>
    /\ th[1].req.target_variable = "y"
    /\ Answered(1)
    /\ th[1].resp[1].error = "Target variable cannot be in input features"

(***************************************************************************)
(* C4.  As claimed: a training request whose model_type is none of linear, *)
(* decision_tree, random_forest, svm, knn, neural_network always fails     *)
(* with the unknown-model-type error and never returns a result record.    *)
(***************************************************************************)
C4_TableKinds ==
    {"linear", "decision_tree", "random_forest", "svm", "knn", "neural_network"}

C4_UnknownTypeAlwaysUnknownError ==
    \A t \in Threads :
        (IsTrain(t) /\ Answered(t) /\ th[t].req.model_type \notin C4_TableKinds) =>
            /\ th[t].resp[1].error = "Unknown model type"
            /\ th[t].resp[1].status # 200
            /\ th[t].resp[1].results = Nothing
            /\ th[t].resp[1].predictions = Nothing

(***************************************************************************)
(* C4, amended.  A training request whose model_type is none of logistic,  *)
(* linear, decision_tree, random_forest, svm, knn, neural_network never    *)
(* returns a result record: it is answered with an error, and with the     *)
(* unknown-model-type error whenever its session lookup, selection         *)
(* validation, preprocessing and splitting succeeded; no estimator is      *)
(* stored for it.                                                          *)
(***************************************************************************)
C4_AcceptedKinds == C4_TableKinds \cup {"logistic"}

C4_UnknownTypeFails ==
    \A t \in Threads :
        (IsTrain(t) /\ th[t].req.model_type \notin C4_AcceptedKinds) =>
            /\ th[t].pc \notin {"t_fit", "t_metrics"}
            /\ Answered(t) =>
                 /\ th[t].resp[1].status # 200
                 /\ th[t].resp[1].error \notin {None, ""}
                 /\ th[t].resp[1].results = Nothing
                 /\ th[t].resp[1].predictions = Nothing
                 /\ th[t].failed \in {"session", "validate", "preprocess",
                                      "split", "train"}
                 /\ (th[t].failed = "train")
                       = (th[t].resp[1].error = "Unknown model type")
                 /\ (Stages(t) = {"validate", "preprocess", "split", "train"})
                       = (th[t].failed = "train")

\* An unknown model type reaches the factory and is refused there.
C4_Witness ==
    /\ IsTrain(1) /\ Answered(1)
    /\ th[1].req.model_type = "xgboost"
    /\ th[1].trace = <<"validate", "preprocess", "split", "train">>
    /\ th[1].resp[1].error = "Unknown model type"
    /\ th[1].resp[1].status = 500
(***************************************************************************)
(* C5.  A predict request for a session on which no training request has   *)
(* completed successfully is answered with an error and no predictions     *)
(* (read off when no training request is under way).                       *)
(***************************************************************************)
IsPredict(t) == th[t].req.kind = "predict"

C5_PredictNeedsCompletedTraining ==
    \A t \in Threads :
        (/\ IsPredict(t) /\ Answered(t)
         /\ th[t].req.session_id \notin trained
         /\ \A u \in Threads : ~MidTraining(u)) =>
            /\ th[t].resp[1].status # 200
            /\ th[t].resp[1].error \notin {None, ""}
            /\ th[t].resp[1].predictions = Nothing

(***************************************************************************)
(* C6.  A failure in any stage of a training request (validation,          *)
(* preprocessing, splitting, model construction, fitting, evaluation) ends *)
(* the request with an error response: nothing runs after the failing      *)
(* stage, the response carries an error and no results, and a response     *)
(* with results is given only when all stages ran without failure.         *)
(***************************************************************************)
AllStages == <<"validate", "preprocess", "split", "train", "fit", "metrics">>

C6_FailuresAreReported ==
    \A t \in Threads :
        IsTrain(t) =>
            /\ ~Answered(t) => th[t].failed = ""
            /\ Answered(t) => th[t].pc = "idle"
            /\ (Answered(t) /\ th[t].failed # "") =>
                 /\ th[t].resp[1].status \in {400, 500}
                 /\ th[t].resp[1].error \notin {None, ""}
                 /\ th[t].resp[1].results = Nothing
                 /\ th[t].resp[1].predictions = Nothing
                 /\ th[t].failed # "session" =>
                      /\ th[t].trace # <<>>
                      /\ th[t].trace[Len(th[t].trace)] = th[t].failed
            /\ (Answered(t) /\ th[t].resp[1].status = 200) =>
                 /\ th[t].failed = ""
                 /\ th[t].trace = AllStages
                 /\ th[t].resp[1].error = None
                 /\ th[t].resp[1].results # Nothing

\* The estimator's fit raised and the request was answered with status 500.
C6_Witness ==
    /\ IsTrain(1) /\ Answered(1)
    /\ th[1].failed = "fit"
    /\ th[1].trace = <<"validate", "preprocess", "split", "train", "fit">>
    /\ th[1].resp[1].status = 500
    /\ th[1].resp[1].results = Nothing

(***************************************************************************)
(* C7.  Requests on one session are serialized: no request starts mutating *)
(* a pipeline while another training request is between its first and its  *)
(* last mutation of that pipeline, and no predict request calls the model  *)
(* of a pipeline that a training request is in the middle of updating.     *)
(***************************************************************************)
C7_SessionRequestsSerialized ==
    \A t1, t2 \in Threads :
        (t1 # t2 /\ MidTraining(t1) /\ th[t2].pipeline = th[t1].pipeline) =>
            /\ ~MidTraining(t2)
            /\ th[t2].pc # "p_predict"

(***************************************************************************)
(* C8.  When a training request enables handle_missing, the feature matrix *)
(* X that preprocessing returns, and the train and test matrices cut from  *)
(* it, hold no missing value.                                              *)
(***************************************************************************)
NoMissing(X) == \A i \in DOMAIN X.cols : CountNA(X.cols[i].vals) = 0

C8_ImputedHasNoMissing ==
    \A t \in Threads :
        (IsTrain(t) /\ th[t].req.preprocessing.handle_missing) =>
            /\ th[t].X # Nothing => NoMissing(th[t].X[1])
            /\ ("split" \in Stages(t) /\ th[t].failed # "split") =>
                 LET self == heap[th[t].pipeline]
                 IN  /\ NoMissing(self.X_train[1].X)
                     /\ NoMissing(self.X_test[1].X)

\* Preprocessing returned X for selected columns that had missing values,
\* with imputation as the only step that could remove them.
C8_Witness ==
    /\ IsTrain(1)
    /\ th[1].req.preprocessing.handle_missing
    /\ ~th[1].req.preprocessing.encode_categories
    /\ th[1].X # Nothing
    /\ th[1].req.input_features = <<"a", "c">>
    /\ \A i \in 1..2 :
          CountNA(Column(Frames[th[1].df], th[1].req.input_features[i]).vals) > 0
(***************************************************************************)
(* C9.  As claimed: the split is stratified exactly when the target has    *)
(* more than one class and every class has at least 2 samples; when some   *)
(* class has exactly 1 sample, stratification is skipped and the split     *)
(* completes without raising.                                              *)
(***************************************************************************)
\* The target vector the request's preprocessing hands to the split.
C9_Target(t) ==
    preprocess_data(NewPipeline(th[t].df), Frames[th[t].df],
                    th[t].req.input_features, th[t].req.target_variable,
                    th[t].req.preprocessing).y[1]

C9_Classes(y) == Range(y.vals)

C9_Samples(y, v) == Cardinality({ i \in DOMAIN y.vals : y.vals[i] = v })

C9_Stratifiable(y) ==
    /\ Cardinality(C9_Classes(y)) > 1
    /\ \A v \in C9_Classes(y) : C9_Samples(y, v) >= 2

C9_HasSingleton(y) == \E v \in C9_Classes(y) : C9_Samples(y, v) = 1

C9_SplitRan(t) == IsTrain(t) /\ "split" \in Stages(t)

\* Every class has its share of the train rows, rounded down or up.
C9_ClassSharesKept(y, tr) ==
    LET n == Len(y.vals)
    IN  \A v \in C9_Classes(y) :
            LET k == Cardinality({ i \in tr : y.vals[i] = v })
                c == C9_Samples(y, v)
            IN  /\ k * n <= c * Cardinality(tr) + (n - 1)
                /\ k * n >= c * Cardinality(tr) - (n - 1)

C9_StratifiedIffAndSingletonNeverRaises ==
    \A t \in Threads :
        C9_SplitRan(t) =>
            LET y == C9_Target(t)
            IN  /\ th[t].stratified = C9_Stratifiable(y)
                /\ (th[t].stratified /\ th[t].failed # "split") =>
                      C9_ClassSharesKept(y, heap[th[t].pipeline].X_train[1].rows)
                /\ C9_HasSingleton(y) =>
                      /\ ~th[t].stratified
                      /\ th[t].failed # "split"

(***************************************************************************)
(* C9, amended.  The split is stratified exactly when the target has more  *)
(* than one class and every class has at least 2 samples; when some class  *)
(* has exactly 1 sample, stratification is skipped and the split completes *)
(* without raising whenever the split ratio is strictly between 0 and 100  *)
(* and leaves at least one row for training.                               *)
(***************************************************************************)
C9_RatioSplits(y, r) ==
    /\ 0 < r /\ r < 100
    /\ Len(y.vals) - NTest(Len(y.vals), r) > 0

C9_StratifiedIff ==
    \A t \in Threads :
        C9_SplitRan(t) =>
            LET y == C9_Target(t)
            IN  /\ th[t].stratified = C9_Stratifiable(y)
                /\ (th[t].stratified /\ th[t].failed # "split") =>
                      C9_ClassSharesKept(y, heap[th[t].pipeline].X_train[1].rows)
                /\ C9_HasSingleton(y) =>
                      /\ ~th[t].stratified
                      /\ (th[t].failed = "split")
                            = ~C9_RatioSplits(y, th[t].req.split_ratio)

\* A target with a class of one sample was split, unstratified.
C9_Witness ==
    /\ C9_SplitRan(1)
    /\ th[1].pc = "t_train"
    /\ C9_HasSingleton(C9_Target(1))
    /\ Cardinality(C9_Classes(C9_Target(1))) > 1
    /\ ~th[1].stratified
    /\ heap[th[1].pipeline].X_train # Nothing

\* A target whose classes all have two samples or more was split, stratified.
C9_WitnessStratified ==
    /\ C9_SplitRan(1)
    /\ th[1].pc = "t_train"
    /\ th[1].stratified
    /\ C9_ClassSharesKept(C9_Target(1), heap[th[1].pipeline].X_train[1].rows)

(***************************************************************************)
(* C10.  After a successful split the train and test row sets are disjoint *)
(* and together are all rows of the dataset, the labels are cut along the  *)
(* same rows, n_train_samples + n_test_samples is the number of rows, and  *)
(* the train count is split_ratio percent of the rows to within one row    *)
(* (a 100-row dataset with split_ratio 70 gives 70 train and 30 test       *)
(* rows).                                                                  *)
(***************************************************************************)
C10_SplitDone(t) == IsTrain(t) /\ "split" \in Stages(t) /\ th[t].failed # "split"

C10_SplitPartitionsRows ==
    \A t \in Threads :
        C10_SplitDone(t) =>
            LET self == heap[th[t].pipeline]
                n    == Frames[th[t].df].nrows
                r    == th[t].req.split_ratio
                tr   == self.X_train[1].rows
                te   == self.X_test[1].rows
            IN  /\ tr \cap te = {}
                /\ tr \cup te = 1..n
                /\ tr # {} /\ te # {}
                /\ DOMAIN self.y_train[1].vals = tr
                /\ DOMAIN self.y_test[1].vals = te
                /\ Cardinality(tr) + Cardinality(te) = n
                /\ 100 * Cardinality(tr) <= r * n
                /\ r * n - 100 * Cardinality(tr) <= 100
                /\ (n = 100 /\ r = 70) =>
                      (Cardinality(tr) = 70 /\ Cardinality(te) = 30)
                /\ (Answered(t) /\ th[t].resp[1].status = 200) =>
                      LET b == th[t].resp[1].results[1].bookkeeping
                      IN  /\ b.n_train_samples = Cardinality(tr)
                          /\ b.n_test_samples = Cardinality(te)
                          /\ b.n_train_samples + b.n_test_samples = n

\* The hundred-row dataset trained with split_ratio 70.
C10_Witness ==
    /\ C10_SplitDone(1) /\ Answered(1)
    /\ Frames[th[1].df].nrows = 100
    /\ th[1].req.split_ratio = 70
    /\ th[1].resp[1].status = 200
    /\ th[1].resp[1].results[1].bookkeeping.n_train_samples = 70
    /\ th[1].resp[1].results[1].bookkeeping.n_test_samples = 30
(***************************************************************************)
(* C11.  For every classification training whose fit succeeded and whose   *)
(* predictions on both partitions were obtained, the metrics are computed  *)
(* without raising: the request is answered with test and train accuracy   *)
(* and a confusion matrix, averaged binary when the test labels have       *)
(* exactly two classes and weighted otherwise.                             *)
(***************************************************************************)
\* What self.model.predict raises at lines 236-237, before the metrics.
C11_PredictErrors ==
    {"NotFittedError", "ValueError: feature names", "ValueError: could not convert",
     "ValueError: Input X contains NaN", "ValueError: n_neighbors"}

C11_MetricsRan(t) ==
    /\ IsTrain(t) /\ Answered(t)
    /\ "metrics" \in Stages(t)
    /\ th[t].classification
    /\ th[t].resp[1].error \notin C11_PredictErrors

C11_MetricsNeverRaise ==
    \A t \in Threads :
        C11_MetricsRan(t) =>
            /\ th[t].failed = ""
            /\ th[t].resp[1].status = 200
            /\ th[t].resp[1].results # Nothing
            /\ LET r  == th[t].resp[1].results[1]
                   yt == th[t].resp[1].predictions[1].actual
               IN  /\ r.problem = "classification"
                   /\ r.average = IF Cardinality(Range(yt)) = 2
                                  THEN "binary" ELSE "weighted"
                   /\ r.test_accuracy[2] = Cardinality(DOMAIN yt)
                   /\ r.confusion_matrix # <<>>

(***************************************************************************)
(* C12.  For every classification result, the confusion matrix is square   *)
(* with side equal to the number of distinct classes among the true labels *)
(* of the test partition, and the row of each class sums to the number of  *)
(* test samples whose true label is that class.                            *)
(***************************************************************************)
C12_ConfusionMatrixShape ==
    \A t \in Threads :
        (/\ IsTrain(t) /\ Answered(t)
         /\ th[t].resp[1].status = 200
         /\ th[t].resp[1].results[1].problem = "classification") =>
            LET cm      == th[t].resp[1].results[1].confusion_matrix
                yt      == th[t].resp[1].predictions[1].actual
                classes == SortedSeq(Range(yt))
            IN  /\ Len(cm) = Len(classes)
                /\ \A a \in DOMAIN cm :
                      /\ Len(cm[a]) = Len(classes)
                      /\ SumSeq(cm[a])
                            = Cardinality({ i \in DOMAIN yt : yt[i] = classes[a] })
(***************************************************************************)
(* C13.  In every preprocess_data call that returns, the steps ran in the  *)
(* order imputation, categorical encoding, scaling: a text feature with    *)
(* gaps that is imputed and encoded has no code for a missing value, and a *)
(* text feature that is encoded reaches the scaler as numbers.  At most    *)
(* one scaler is applied: standardization whenever its flag is set, also   *)
(* when normalization is set too, and normalization only when              *)
(* standardization is not set.                                             *)
(***************************************************************************)
C13_StepRank(step) ==
    CASE step = "impute" -> 1
      [] step = "encode" -> 2
      [] step = "encode_target" -> 3
      [] step \in {"standard", "minmax"} -> 4

\* Thread t holds the (X, y) its preprocess_data call returned.
C13_Preprocessed(t) == IsTrain(t) /\ th[t].pc = "t_split" /\ th[t].X # Nothing

C13_StepOrderAndOneScaler ==
    \A t \in Threads :
        C13_Preprocessed(t) =>
            LET X    == th[t].X[1]
                cfg  == th[t].req.preprocessing
                self == heap[th[t].pipeline]
                f    == th[t].req.input_features
                raw(i) == Column(Frames[th[t].df], f[i])
            IN  /\ \A i, j \in DOMAIN X.steps :
                      i < j => C13_StepRank(X.steps[i]) < C13_StepRank(X.steps[j])
                /\ X.scaled = (IF cfg.standardization THEN "standard"
                               ELSE IF cfg.normalization THEN "minmax"
                               ELSE "none")
                /\ Cardinality({ i \in DOMAIN X.steps :
                                   X.steps[i] \in {"standard", "minmax"} }) <= 1
                /\ X.scaled # "none" =>
                      /\ self.scaler # Nothing
                      /\ self.scaler[1].kind = X.scaled
                      /\ self.scaler[1].fitted
                      /\ X.steps[Len(X.steps)] = X.scaled
                /\ \A i \in DOMAIN f :
                      (/\ cfg.handle_missing /\ cfg.encode_categories
                       /\ raw(i).dtype = "object"
                       /\ STR_NAN \notin Range(raw(i).vals)) =>
                          STR_NAN \notin Range(self.label_encoders[f[i]].classes)
                /\ \A i \in DOMAIN f :
                      (cfg.encode_categories /\ X.scaled # "none") =>
                          is_numeric_dtype(X.cols[i].dtype)

\* Both scaling flags set, on a text feature with gaps that is imputed and
\* encoded before it is standardized.
C13_Witness ==
    /\ C13_Preprocessed(1)
    /\ th[1].req.preprocessing.standardization
    /\ th[1].req.preprocessing.normalization
    /\ th[1].req.input_features = <<"a", "c">>
    /\ CountNA(Column(Frames[th[1].df], "c").vals) > 0
    /\ th[1].X[1].steps = <<"impute", "encode", "standard">>
    /\ heap[th[1].pipeline].scaler[1].kind = "standard"
(***************************************************************************)
(* C14.  preprocess_data encodes a non-numeric target to integer codes in  *)
(* every call, whatever encode_categories says, and a non-numeric feature  *)
(* exactly when encode_categories is true.  Each encoding gives the k      *)
(* distinct categories of the column the codes 0..k-1, equal values equal  *)
(* codes and distinct categories distinct codes, in the sorted order of    *)
(* the categories, and the assignment is kept in label_encoders under the  *)
(* column's name.                                                          *)
(***************************************************************************)
\* codes is a dense coding of the strings strs, kept in the encoder le.
C14_DenseCoding(strs, codes, le) ==
    LET k == Cardinality(Range(strs))
    IN  /\ DOMAIN codes = DOMAIN strs
        /\ Range(codes) = 0..(k - 1)
        /\ \A i, j \in DOMAIN strs : (strs[i] = strs[j]) = (codes[i] = codes[j])
        /\ \A i, j \in DOMAIN strs : (strs[i] < strs[j]) => (codes[i] < codes[j])
        /\ Len(le.classes) = k
        /\ \A i \in DOMAIN strs : le.classes[codes[i] + 1] = strs[i]

C14_EncodingRule ==
    \A t \in Threads :
        C13_Preprocessed(t) =>
            LET X    == th[t].X[1]
                y    == th[t].y[1]
                cfg  == th[t].req.preprocessing
                enc  == heap[th[t].pipeline].label_encoders
                f    == th[t].req.input_features
                tg   == th[t].req.target_variable
                df   == Frames[th[t].df]
                y0   == Column(df, tg)
            IN  /\ IF y0.dtype = "object"
                   THEN /\ tg \in DOMAIN enc
                        /\ C14_DenseCoding(astype_str(y0.vals), y.vals, enc[tg])
                   ELSE /\ tg \notin DOMAIN enc
                        /\ y.vals = y0.vals
                /\ \A i \in DOMAIN f :
                      LET x0 == IF cfg.handle_missing
                                THEN Impute(Column(df, f[i]), cfg.missing_strategy)
                                ELSE Column(df, f[i])
                      IN  IF x0.dtype = "object" /\ cfg.encode_categories
                          THEN /\ f[i] \in DOMAIN enc
                               /\ C14_DenseCoding(astype_str(x0.vals),
                                                  X.cols[i].vals, enc[f[i]])
                          ELSE /\ f[i] \notin DOMAIN enc
                               /\ X.cols[i].vals = x0.vals
                               /\ X.scaled = "none" => X.cols[i].dtype = x0.dtype

\* encode_categories is off: the text target is encoded, the text feature
\* is not.
C14_Witness ==
    /\ C13_Preprocessed(1)
    /\ ~th[1].req.preprocessing.encode_categories
    /\ Column(Frames[th[1].df], "y").dtype = "object"
    /\ th[1].req.input_features = <<"a", "c">>
    /\ th[1].X[1].cols[2].dtype = "object"
    /\ Range(th[1].y[1].vals) = {0, 1}
    /\ "y" \in DOMAIN heap[th[1].pipeline].label_encoders
    /\ "c" \notin DOMAIN heap[th[1].pipeline].label_encoders

\* encode_categories is on: a text feature with a missing cell is encoded,
\* the missing cell as the category "nan".
C14_WitnessFeature ==
    /\ C13_Preprocessed(1)
    /\ th[1].req.preprocessing.encode_categories
    /\ ~th[1].req.preprocessing.handle_missing
    /\ th[1].req.input_features = <<"a", "c">>
    /\ CountNA(Column(Frames[th[1].df], "c").vals) > 0
    /\ STR_NAN \in Range(heap[th[1].pipeline].label_encoders["c"].classes)
    /\ Range(th[1].X[1].cols[2].vals) = {0, 1, 2}
(***************************************************************************)
(* C15.  At training time the problem type is derived from the             *)
(* post-encoding target vector: classification if and only if the target   *)
(* has fewer than 50 distinct values and is not floating-point valued,     *)
(* regression otherwise; the model constructed and the metrics computed    *)
(* follow this determination.                                              *)
(***************************************************************************)
\* The estimator of thread t's request has been constructed.
C15_Constructed(t) ==
    /\ IsTrain(t)
    /\ "train" \in Stages(t)
    /\ th[t].failed # "train"

C15_ModelAndMetricsFollow(t, classification) ==
    /\ heap[th[t].pipeline].model # Nothing
    /\ heap[th[t].pipeline].model[1].classifier = classification
    /\ (Answered(t) /\ th[t].resp[1].status = 200) =>
          th[t].resp[1].results[1].problem
              = (IF classification THEN "classification" ELSE "regression")

C15_ProblemTypeFromTarget ==
    \A t \in Threads :
        C15_Constructed(t) =>
            LET y == C9_Target(t)
                classification ==
                    /\ Cardinality(Range(y.vals)) < MAX_CLASSES
                    /\ ~y.floating
            IN  /\ th[t].classification = classification
                /\ C15_ModelAndMetricsFollow(t, classification)

\* What holds instead: the type is derived from the train partition.
C15_ProblemTypeFromTrainPartition ==
    \A t \in Threads :
        C15_Constructed(t) =>
            LET y_train == heap[th[t].pipeline].y_train[1]
                classification ==
                    /\ Cardinality(Range(y_train.vals)) < MAX_CLASSES
                    /\ ~y_train.floating
            IN  /\ th[t].classification = classification
                /\ C15_ModelAndMetricsFollow(t, classification)
(***************************************************************************)
(* C16.  A training request that fails at any stage leaves the pipeline of *)
(* its session as it was before the request: model, train/test partitions, *)
(* feature names, target name, label encoders and scaler.  (The request is *)
(* the first one on a freshly uploaded session, whose pipeline is the one  *)
(* the upload created.)                                                    *)
(***************************************************************************)
C16_FailedTraining(t) ==
    /\ IsTrain(t) /\ Answered(t)
    /\ KnownSession(t)
    /\ th[t].failed # ""

C16_FailedTrainingChangesNothing ==
    \A t \in Threads :
        C16_FailedTraining(t) =>
            LET self == heap[pipelines[th[t].req.session_id]]
            IN  self = NewPipeline(self.original_df)
(***************************************************************************)
(* C17.  Whenever no request is being served, a pipeline whose model is    *)
(* not None holds a fitted model, fitted on the train partition, the       *)
(* feature names and the target name stored in the same pipeline.          *)
(***************************************************************************)
Quiescent == \A t \in Threads : th[t].pc = "idle"

C17_StoredModelIsFitted ==
    Quiescent =>
        \A p \in DOMAIN heap :
            heap[p].model # Nothing =>
                LET model == heap[p].model[1]
                IN  /\ model.fitted
                    /\ heap[p].X_train # Nothing
                    /\ model.fit_rows = heap[p].X_train[1].rows
                    /\ model.features = heap[p].feature_names
                    /\ model.fit_target = heap[p].target_name

(***************************************************************************)
(* C18.  After each preprocess_data call the pipeline's label_encoders and *)
(* scaler reflect that call only: an encoder is stored for exactly the     *)
(* columns the call encoded, and a scaler is stored exactly when the call  *)
(* scaled, of the kind the call used.  Nothing remains of an earlier call  *)
(* on the same pipeline.                                                   *)
(***************************************************************************)
\* The columns the preprocess_data call of thread t encoded.
C18_EncodedColumns(t) ==
    LET cfg == th[t].req.preprocessing
        f   == th[t].req.input_features
        tg  == th[t].req.target_variable
        df  == Frames[th[t].df]
        x0(i) == IF cfg.handle_missing
                 THEN Impute(Column(df, f[i]), cfg.missing_strategy)
                 ELSE Column(df, f[i])
    IN  { f[i] : i \in { j \in DOMAIN f :
                           x0(j).dtype = "object" /\ cfg.encode_categories } }
        \cup (IF Column(df, tg).dtype = "object" THEN {tg} ELSE {})

\* Only thread t has served requests so far: the requests were handled
\* strictly one after another.
C18_OnlyThread(t) == \A u \in Threads \ {t} : th[u] = IdleThread

C18_PreprocessStateIsPerCall ==
    \A t \in Threads :
        (C13_Preprocessed(t) /\ C18_OnlyThread(t)) =>
            LET self == heap[th[t].pipeline]
                X    == th[t].X[1]
            IN  /\ DOMAIN self.label_encoders = C18_EncodedColumns(t)
                /\ (self.scaler = Nothing) = (X.scaled = "none")
                /\ self.scaler # Nothing => self.scaler[1].kind = X.scaled

(***************************************************************************)
(* C19.  Every successful upload is given a session identifier that no     *)
(* other session has, also when uploads are handled concurrently: two      *)
(* uploads never answer the same identifier, and storing a new session     *)
(* never replaces the pipeline of an existing one, so every pipeline ever  *)
(* created is still registered under its own identifier.                   *)
(***************************************************************************)
\* Thread t's last request was an upload answered with a session id.
C19_Uploaded(t) ==
    /\ Answered(t)
    /\ th[t].req.kind = "upload"
    /\ th[t].resp[1].status = 200

C19_SessionIdsUnique ==
    /\ \A t, u \in Threads :
          (t # u /\ C19_Uploaded(t) /\ C19_Uploaded(u)) =>
              th[t].resp[1].session_id # th[u].resp[1].session_id
    /\ Quiescent =>
          /\ Cardinality(DOMAIN pipelines) = Len(heap)
          /\ \A p \in DOMAIN heap : \E sid \in DOMAIN pipelines : pipelines[sid] = p

\* The same, when the uploads are served one after another by one thread.
C19_SerialSessionIdsUnique ==
    \A t \in Threads :
        (C18_OnlyThread(t) /\ Quiescent) =>
            /\ Cardinality(DOMAIN pipelines) = Len(heap)
            /\ \A p \in DOMAIN heap : pipelines[p - 1] = p

(***************************************************************************)
(* C20.  Every dataset stored in a session satisfies all the validity      *)
(* rules of validation.validate_dataset: it is not empty, has at least     *)
(* MIN_ROWS rows and MIN_COLS columns, is not entirely missing, has no     *)
(* column with more than MAX_MISSING_PCT percent of its values missing,    *)
(* and has no duplicate and no unnamed column.                             *)
(***************************************************************************)
C20_StoredDatasetsValid ==
    \A p \in DOMAIN heap :
        validation_validate_dataset(ShapeOf(Frames[heap[p].original_df])).valid

\* The rules the upload handler does enforce hold of every stored dataset.
C20_StoredDatasetsPassUploadChecks ==
    \A p \in DOMAIN heap :
        LET df == Frames[heap[p].original_df]
        IN  /\ utils_validate_dataset(ShapeOf(df)).valid
            /\ df.nrows >= MIN_ROWS
            /\ Len(df.cols) >= MIN_COLS

====
